---- MODULE Spec2Model ----
(***************************************************************************)
(* A model of .github/libs/GithubUtils.js: the throttled Octokit client,   *)
(* the early-stopping pull-request fetch, the StagingDeployCash issue body *)
(* generator and parser, and the single-ticket lookup.                     *)
(*                                                                         *)
(* Text is modelled at token level: a body is a sequence of lines (the     *)
(* pieces between CRLFs), a line is a sequence of tokens, a URL is the     *)
(* sequence of its tokens.                                                 *)
(***************************************************************************)
EXTENDS Integers, Sequences, FiniteSets, TLC

VARIABLES
    \* ---- the throttled client (one logical request) ----
    cpc,          \* "idle" | "inflight" | "ok" | "failed"
    retryCount,   \* options.request.retryCount
    attempts,     \* attempts made for the current request
    signals,      \* what each attempt received, in order
    slept,        \* total back-off delay in ms
    clientError   \* the error surfaced to the caller, "" if none

VARIABLES
    \* ---- fetchAllPullRequests ----
    fpc,           \* "idle" | "paging" | "resolved"
    listing,       \* the remote pull-request listing, in the order it is served
    requested,     \* pullRequestNumbers
    nextPage,      \* the page the iterator requests next
    pageRequests,  \* page requests issued so far
    collected,     \* the pages gathered so far, flattened
    fetchError,    \* the error the page request failed with, "" if none
    fetchResult    \* what the returned promise resolves to

VARIABLES
    \* ---- generateStagingDeployCashBody, and the body read back ----
    gpc,         \* "idle" | "fetching" | "done"
    genArgs,     \* the arguments of the call
    genFailure,  \* the exception the handler raised (and .catch logged), "" if none
    genResult,   \* what the call gives its caller
    parsed       \* getStagingDeployCashData of the issue that carries the body

VARIABLES
    \* ---- getStagingDeployCash ----
    lpc,          \* "idle" | "done" | "listFailed"
    tickets,      \* the open issues that carry the StagingDeployCash label
    lookupResult  \* what the returned promise settles to

clientVars == <<cpc, retryCount, attempts, signals, slept, clientError>>

fetchVars == <<fpc, listing, requested, nextPage, pageRequests, collected,
               fetchError, fetchResult>>

genVars == <<gpc, genArgs, genFailure, genResult, parsed>>

lookupVars == <<lpc, tickets, lookupResult>>

vars == <<clientVars, fetchVars, genVars, lookupVars>>

(***************************************************************************)
(* Bounds                                                                  *)
(***************************************************************************)
\* the largest server-suggested retry-after value (seconds)
MaxRetryAfter == 2
\* a cap on the attempts of one request (the handler itself stops earlier)
MaxAttempts == 9
\* pull-request numbers of the listing in the fetch model are 1..MaxNum
MaxNum == 7
\* the most pull-request numbers one fetch is asked for
MaxRequested == 2
\* items per page (per_page) in the fetch model
PerPage == 2
\* pull-request and issue numbers in the generator model are 1..MaxPR
MaxPR == 2
\* the most URLs one call passes in PRList and deployBlockers together
MaxItems == 2
\* the most open StagingDeployCash issues the listing returns
MaxTickets == 2

(***************************************************************************)
(* The throttled client: initOctokit                                       *)
(***************************************************************************)
RetryAfterBaseValue == 2000

\* the comparison operand of onRateLimit
RateLimitRetries == 5

\* throttle.onRateLimit: TRUE (retry) or FALSE (the handler returns undefined)
OnRateLimit(retryAfter, count) == count <= RateLimitRetries

OnAbuseLimitRetrying(retryAfter, count) == count <= RateLimitRetries

\* throttle.onAbuseLimit: only logs a warning; returns undefined
OnAbuseLimit(retryAfter, count) == FALSE

ClientInit ==
    /\ cpc = "idle"
    /\ retryCount = 0
    /\ attempts = 0
    /\ signals = <<>>
    /\ slept = 0
    /\ clientError = ""

\* a new logical request is handed to the client
Request ==
    /\ cpc \in {"idle", "ok", "failed"}
    /\ cpc' = "inflight"
    /\ retryCount' = 0
    /\ attempts' = 0
    /\ signals' = <<>>
    /\ slept' = 0
    /\ clientError' = ""

\* the plugin's failed-request hook: consult the handler with the retries made
\* so far; on TRUE count the retry and back off, otherwise surface the error
Throttled(signal, retryAfter, wantRetry, error) ==
    /\ cpc = "inflight"
    /\ attempts < MaxAttempts
    /\ attempts' = attempts + 1
    /\ signals' = Append(signals, signal)
    /\ IF wantRetry
       THEN /\ retryCount' = retryCount + 1
            /\ slept' = slept + retryAfter * RetryAfterBaseValue
            /\ cpc' = "inflight"
            /\ clientError' = ""
       ELSE /\ cpc' = "failed"
            /\ clientError' = error
            /\ UNCHANGED <<retryCount, slept>>

AttemptRateLimited ==
    \E retryAfter \in 1..MaxRetryAfter :
        Throttled("rateLimit", retryAfter, OnRateLimit(retryAfter, retryCount),
                  "RateLimitExceeded")

AttemptAbuse ==
    \E retryAfter \in 1..MaxRetryAfter :
        Throttled("abuse", retryAfter, OnAbuseLimit(retryAfter, retryCount),
                  "AbuseDetected")

\* any other error is not handled by the throttle hooks: it propagates
AttemptTransportError ==
    /\ cpc = "inflight"
    /\ attempts < MaxAttempts
    /\ attempts' = attempts + 1
    /\ signals' = Append(signals, "transport")
    /\ cpc' = "failed"
    /\ clientError' = "TransportFailure"
    /\ UNCHANGED <<retryCount, slept>>

AttemptOk ==
    /\ cpc = "inflight"
    /\ attempts < MaxAttempts
    /\ attempts' = attempts + 1
    /\ signals' = Append(signals, "ok")
    /\ cpc' = "ok"
    /\ UNCHANGED <<retryCount, slept, clientError>>

ClientNext ==
    \/ Request
    \/ AttemptRateLimited
    \/ AttemptAbuse
    \/ AttemptTransportError
    \/ AttemptOk

(***************************************************************************)
(* Sequence helpers (underscore)                                           *)
(***************************************************************************)
Range(s) == {s[i] : i \in DOMAIN s}

SetMin(S) == CHOOSE x \in S : \A y \in S : x <= y

SetMax(S) == CHOOSE x \in S : \A y \in S : x >= y

\* _.unique: the first occurrence of each element
RECURSIVE Unique(_)
Unique(s) ==
    IF s = <<>> THEN <<>>
    ELSE LET front == Unique(SubSeq(s, 1, Len(s) - 1))
         IN IF s[Len(s)] \in Range(front) THEN front ELSE Append(front, s[Len(s)])

\* _.difference: the elements of s that are not in the set
Difference(s, others) == LET Kept(x) == x \notin others IN SelectSeq(s, Kept)

RECURSIVE InsertByKey(_, _)
InsertByKey(x, s) ==
    IF s = <<>> THEN <<x>>
    ELSE IF x.key < Head(s).key THEN <<x>> \o s
         ELSE <<Head(s)>> \o InsertByKey(x, Tail(s))

\* _.sortBy on [key, val] pairs: ascending by key, stable
RECURSIVE SortByKey(_)
SortByKey(s) ==
    IF s = <<>> THEN <<>>
    ELSE InsertByKey(s[Len(s)], SortByKey(SubSeq(s, 1, Len(s) - 1)))

Values(pairs) == [i \in DOMAIN pairs |-> pairs[i].val]

\* the elements of a set of numbers, largest first
RECURSIVE Descending(_)
Descending(S) ==
    IF S = {} THEN <<>> ELSE <<SetMax(S)>> \o Descending(S \ {SetMax(S)})

\* s with the entries at i and i + 1 exchanged
SwapAdjacent(s, i) ==
    [k \in DOMAIN s |-> IF k = i THEN s[i + 1] ELSE IF k = i + 1 THEN s[i] ELSE s[k]]

(***************************************************************************)
(* URLs and pull-request records                                           *)
(***************************************************************************)
\* decimal numerals are tokens of their own; Number.parseInt reads them back
NumTokens == {ToString(n) : n \in 0..9}

ParseInt(tok) == CHOOSE n \in 0..9 : ToString(n) = tok

\* https://github.com/Expensify/App/pull/<n>, the html_url GitHub serves
CanonicalPRURL(n) ==
    <<"https://github.com", "/Expensify", "/App", "/pull/", ToString(n)>>

\* the same pull request, written with the other scheme the regex admits
PlainHttpPRURL(n) ==
    <<"http://github.com", "/Expensify", "/App", "/pull/", ToString(n)>>

IssueURL(n) ==
    <<"https://github.com", "/Expensify", "/App", "/issues/", ToString(n)>>

PlainHttpIssueURL(n) ==
    <<"http://github.com", "/Expensify", "/App", "/issues/", ToString(n)>>

\* a GitHub URL that names neither an issue nor a pull request
CommitURL == <<"https://github.com", "/Expensify", "/App", "/commit/", "1">>

\* a pull request of a repository whose name holds a dash
DashRepoPRURL(n) ==
    <<"https://github.com", "/Expensify", "/react", "-", "native", "/pull/", ToString(n)>>

\* GITHUB_BASE_URL_REGEX: https?://(?:github\.com|api\.github\.com)
BaseURLTokens ==
    {"https://github.com", "http://github.com",
     "https://api.github.com", "http://api.github.com"}

\* the number of "/" characters in a token
SlashCount(tok) ==
    CASE tok \in {"/pull/", "/issues/", "/commit/"} -> 2
      [] tok \in {"/Expensify", "/App", "/react"} -> 1
      [] OTHER -> 0

RECURSIVE SlashesIn(_)
SlashesIn(u) == IF u = <<>> THEN 0 ELSE SlashCount(Head(u)) + SlashesIn(Tail(u))

\* <base>/.*/.*/<kind>/([0-9]+).* matched at the start of u: the places of the
\* <kind> token the pattern can end its path on
KindIndexes(u, kinds) ==
    IF u = <<>> \/ Head(u) \notin BaseURLTokens THEN {}
    ELSE {i \in 2..(Len(u) - 1) :
            /\ u[i] \in kinds
            /\ u[i + 1] \in NumTokens
            /\ SlashesIn(SubSeq(u, 2, i - 1)) >= 2}

\* the places in u where the (unanchored) pattern matches
MatchStarts(u, kinds) ==
    {j \in DOMAIN u : KindIndexes(SubSeq(u, j, Len(u)), kinds) # {}}

Matches(u, kinds) == MatchStarts(u, kinds) # {}

\* the captured number: the greedy .* puts the path end as far right as it goes
CapturedNumber(u, kinds) ==
    LET rest == SubSeq(u, SetMin(MatchStarts(u, kinds)), Len(u))
    IN ParseInt(rest[SetMax(KindIndexes(rest, kinds)) + 1])

PullKinds == {"/pull/"}
IssueOrPullKinds == {"/pull/", "/issues/"}

\* getPullRequestNumberFromURL throws unless the URL matches
IsPullRequestURL(u) == Matches(u, PullKinds)
GetPullRequestNumberFromURL(u) == CapturedNumber(u, PullKinds)

\* getIssueOrPullRequestNumberFromURL throws unless the URL matches
IsIssueOrPullRequestURL(u) == Matches(u, IssueOrPullKinds)
GetIssueOrPullRequestNumberFromURL(u) == CapturedNumber(u, IssueOrPullKinds)

\* a login, which may hold a dash
MergerLogin == <<"octo", "-", "cat">>

\* merged_by of a pull request nobody merged
NoLogin == <<"null">>

\* a record of the pulls.list response, with the fields the code reads
PullRequest(n, title, labels, mergedBy) ==
    [number |-> n, html_url |-> CanonicalPRURL(n), title |-> title,
     labels |-> labels, merged_by |-> mergedBy]

PlainPR(n) == PullRequest(n, "Fix", {}, MergerLogin)

(***************************************************************************)
(* fetchAllPullRequests                                                    *)
(***************************************************************************)
\* the pages the listing is served in: the last one carries no rel="next" link
NumPages(l) == IF Len(l) = 0 THEN 1 ELSE (Len(l) + PerPage - 1) \div PerPage

Page(l, k) ==
    SubSeq(l, (k - 1) * PerPage + 1,
           IF k * PerPage < Len(l) THEN k * PerPage ELSE Len(l))

\* oldestPR = _.first(_.sortBy(pullRequestNumbers)); undefined for no numbers
HasOldestPR(numbers) == numbers # {}

OldestPR(numbers) == SetMin(numbers)

CallsDoneNever(data, numbers) == FALSE

CallsDoneOnAnyRequested(data, numbers) ==
    \E i \in DOMAIN data : data[i].number \in numbers

CallsDoneOncePast(data, numbers) ==
    /\ HasOldestPR(numbers)
    /\ \E i \in DOMAIN data : data[i].number <= OldestPR(numbers)

\* the map function of paginate: done() iff the page holds the oldest PR
CallsDone(data, numbers) ==
    /\ HasOldestPR(numbers)
    /\ \E i \in DOMAIN data : data[i].number = OldestPR(numbers)

\* .then: keep the pull requests whose number was asked for
FilterRequested(prList, numbers) ==
    LET Wanted(pr) == pr.number \in numbers IN SelectSeq(prList, Wanted)

Pending == [kind |-> "pending", items |-> <<>>]
Undefined == [kind |-> "undefined", items |-> <<>>]
Value(items) == [kind |-> "array", items |-> items]

FetchInit ==
    /\ fpc = "idle"
    /\ listing = <<>>
    /\ requested = {}
    /\ nextPage = 1
    /\ pageRequests = 0
    /\ collected = <<>>
    /\ fetchError = ""
    /\ fetchResult = Pending

\* the listings served: newest first (sort: created, direction: desc), the
\* numbers either falling all the way or out of step at one place
NumberOrders ==
    LET sorted == {Descending(S) : S \in SUBSET (1..MaxNum)}
    IN sorted \cup UNION {{SwapAdjacent(s, i) : i \in 1..(Len(s) - 1)} : s \in sorted}

FetchListings ==
    {[i \in DOMAIN s |-> PlainPR(s[i])] : s \in NumberOrders}

RequestedSets == {S \in SUBSET (1..MaxNum) : Cardinality(S) <= MaxRequested}

\* fetchAllPullRequests(pullRequestNumbers) against some state of the repository
FetchAllPullRequests ==
    /\ fpc = "idle"
    /\ \E l \in FetchListings, numbers \in RequestedSets :
         /\ listing' = l
         /\ requested' = numbers
    /\ fpc' = "paging"
    /\ nextPage' = 1
    /\ pageRequests' = 0
    /\ collected' = <<>>
    /\ fetchError' = ""
    /\ fetchResult' = Pending

\* a page request succeeds: gather() runs the map function on the page, and
\* stops on done() or when the response carries no next link
PageOk ==
    /\ fpc = "paging"
    /\ pageRequests' = pageRequests + 1
    /\ LET data == Page(listing, nextPage)
           results == collected \o data
       IN /\ collected' = results
          /\ IF CallsDone(data, requested) \/ nextPage >= NumPages(listing)
             THEN /\ fpc' = "resolved"
                  /\ fetchResult' = Value(FilterRequested(results, requested))
                  /\ UNCHANGED nextPage
             ELSE /\ nextPage' = nextPage + 1
                  /\ UNCHANGED <<fpc, fetchResult>>
    /\ UNCHANGED <<listing, requested, fetchError>>

\* a page request fails (after the client's own retries): paginate rejects,
\* and .catch logs the error, so the returned promise resolves to undefined
PageFails ==
    /\ fpc = "paging"
    /\ pageRequests' = pageRequests + 1
    /\ fetchError' = "TransportFailure"
    /\ fpc' = "resolved"
    /\ fetchResult' = Undefined
    /\ UNCHANGED <<listing, requested, nextPage, collected>>

FetchNext ==
    \/ FetchAllPullRequests
    \/ PageOk
    \/ PageFails

(***************************************************************************)
(* generateStagingDeployCashBody: the promise handler                      *)
(***************************************************************************)
InternalQALabel == "InternalQA"

\* /\[No\s?QA]/i on a pull-request title
IsNoQATitle(title) == title \in {"[No QA] Fix", "[NoQA] Fix", "[no qa] fix"}

\* underscore iterates undefined as an empty list
DataItems(data) == IF data.kind = "array" THEN data.items ELSE <<>>

InternalQAPRs(data) ==
    LET Labelled(pr) == InternalQALabel \in pr.labels
    IN SelectSeq(DataItems(data), Labelled)

\* pr.merged_by.login on a pull request nobody merged is a TypeError
MergedByThrows(data) ==
    \E i \in DOMAIN InternalQAPRs(data) : InternalQAPRs(data)[i].merged_by = NoLogin

\* internalQAPRMap, as the entries of the object in insertion order: the order
\* of the fetched data
InternalQAPRMap(data) ==
    LET prs == InternalQAPRs(data)
    IN [i \in DOMAIN prs |-> [url |-> prs[i].html_url, login |-> prs[i].merged_by]]

MapKeys(map) == {map[i].url : i \in DOMAIN map}

NoQAPRs(data) ==
    LET NoQA(pr) == IsNoQATitle(pr.title)
        prs == SelectSeq(DataItems(data), NoQA)
    IN {prs[i].html_url : i \in DOMAIN prs}

VerifiedOrNoQAPRs(args, data) == args.verifiedPRList \cup NoQAPRs(data)

\* _.chain(PRList).difference(keys).unique().sortBy(getPullRequestNumberFromURL)
SortedPRList(args, data) ==
    LET list == Unique(Difference(args.PRList, MapKeys(InternalQAPRMap(data))))
    IN Values(SortByKey([i \in DOMAIN list |->
                 [key |-> GetPullRequestNumberFromURL(list[i]), val |-> list[i]]]))

\* the iteratee of sortBy throws on a URL that is no issue or pull request
SortDeployBlockersThrows(args) ==
    \E i \in DOMAIN args.deployBlockers :
        ~IsIssueOrPullRequestURL(args.deployBlockers[i])

\* _.sortBy(_.unique(deployBlockers), getIssueOrPullRequestNumberFromURL)
SortedDeployBlockers(args) ==
    LET list == Unique(args.deployBlockers)
    IN Values(SortByKey([i \in DOMAIN list |->
                 [key |-> GetIssueOrPullRequestNumberFromURL(list[i]), val |-> list[i]]]))

CheckBox(checked) == IF checked THEN "x" ELSE " "

CheckLine(checked, rest) == <<"- [", CheckBox(checked), "]", " ">> \o rest

Blank == <<>>

PRSectionLines(args, data) ==
    LET list == SortedPRList(args, data)
    IN IF list = <<>> THEN <<>>
       ELSE <<Blank,
              <<"**This release contains changes from the following ", "pull requests:**">>>>
            \o [i \in DOMAIN list |->
                  CheckLine(list[i] \in VerifiedOrNoQAPRs(args, data), list[i])]
            \o <<Blank, Blank>>

InternalQASectionLines(args, data) ==
    LET map == InternalQAPRMap(data)
    IN IF map = <<>> THEN <<>>
       ELSE <<<<"**", "Internal QA:**">>>>
            \o [i \in DOMAIN map |->
                  CheckLine(map[i].url \in args.resolvedInternalQAPRs,
                            map[i].url \o <<" ", "-", " ", "@">> \o map[i].login)]
            \o <<Blank, Blank>>

DeployBlockerSectionLines(args) ==
    LET list == SortedDeployBlockers(args)
    IN IF args.deployBlockers = <<>> THEN <<>>
       ELSE <<<<"**", "Deploy Blockers:**">>>>
            \o [i \in DOMAIN list |->
                  CheckLine(list[i] \in args.resolvedDeployBlockers, list[i])]
            \o <<Blank, Blank>>

TimingDashboardText == "I checked the [App Timing Dashboard]"
FirebaseText == "I checked [Firebase Crashlytics]"
GHStatusText == "I checked [GitHub Status]"

\* the back-quote character, as a token
BackTick == "BACKTICK"

\* issueBody, CRLF-terminated line by line
IssueBody(args, data) ==
    <<<<"**Release Version:** ", BackTick>> \o args.tag \o <<BackTick>>,
      <<"**Compare Changes:** https://github.com/Expensify/App/compare/production...staging">>>>
    \o PRSectionLines(args, data)
    \o InternalQASectionLines(args, data)
    \o DeployBlockerSectionLines(args)
    \o <<<<"**Deployer verifications:**">>,
          CheckLine(args.isTimingDashboardChecked,
                    <<TimingDashboardText, "(https://graphs.expensify.com/...) and verified ...">>),
          CheckLine(args.isFirebaseChecked,
                    <<FirebaseText, "(https://console.firebase.google.com/...) and verified ...">>),
          CheckLine(args.isGHStatusChecked,
                    <<GHStatusText, "(https://www.githubstatus.com/) and verified ...">>),
          Blank,
          <<"cc @Expensify/applauseleads">>>>

\* _.values(internalQAPRMap)
IssueAssignees(data) ==
    LET map == InternalQAPRMap(data) IN [i \in DOMAIN map |-> map[i].login]

\* an exception inside the handler
HandlerThrows(args, data) == MergedByThrows(data) \/ SortDeployBlockersThrows(args)

(***************************************************************************)
(* getStagingDeployCashData: the parser                                    *)
(***************************************************************************)
\* the first place in the line where the item pattern "- \[([ x])]\s(<url>)"
\* matches, 0 if none
ItemStarts(line, kinds) ==
    {p \in 1..(Len(line) - 4) :
        /\ line[p] = "- ["
        /\ line[p + 1] \in {" ", "x"}
        /\ line[p + 2] = "]"
        /\ line[p + 3] = " "
        /\ KindIndexes(SubSeq(line, p + 4, Len(line)), kinds) # {}}

IsItem(line, kinds) == ItemStarts(line, kinds) # {}

\* match[1], match[2] and match[3] of the item pattern on a line
ItemMatch(line, kinds) ==
    LET p == SetMin(ItemStarts(line, kinds))
        url == SubSeq(line, p + 4, Len(line))
    IN [box |-> line[p + 1],
        url |-> url,
        number |-> ParseInt(url[SetMax(KindIndexes(url, kinds)) + 1])]

\* the line pattern a section repeats: "-.*" (a line that starts with a dash)
\* or "- \[[ x]].*" (a line that starts with a check box)
IsSectionLine(line, pattern) ==
    IF pattern = "dash"
    THEN line # <<>> /\ Head(line) \in {"- [", "-"}
    ELSE /\ Len(line) >= 3
         /\ line[1] = "- ["
         /\ line[2] \in {" ", "x"}
         /\ line[3] = "]"

\* the lines after line h that the repeated group takes: as many as match
RunLength(body, h, pattern) ==
    CHOOSE n \in 0..(Len(body) - h) :
        /\ \A k \in 1..n : IsSectionLine(body[h + k], pattern)
        /\ h + n + 1 > Len(body) \/ ~IsSectionLine(body[h + n + 1], pattern)

\* the heading lines at which the section pattern matches: the heading text
\* ends the line, one line or more follows, then (blankAfter) an empty line
SectionHeads(body, heading, pattern, blankAfter) ==
    {h \in DOMAIN body :
        /\ body[h] # <<>>
        /\ body[h][Len(body[h])] = heading
        /\ RunLength(body, h, pattern) >= 1
        /\ blankAfter =>
              /\ h + RunLength(body, h, pattern) + 1 <= Len(body)
              /\ body[h + RunLength(body, h, pattern) + 1] = <<>>}

\* the captured section of the first match, empty when the pattern fails
Section(body, heading, pattern, blankAfter) ==
    LET heads == SectionHeads(body, heading, pattern, blankAfter)
    IN IF heads = {} THEN <<>>
       ELSE SubSeq(body, SetMin(heads) + 1,
                   SetMin(heads) + RunLength(body, SetMin(heads), pattern))

\* the matches of the item pattern in a section, one for each line that has
\* one, in the order of the lines
ItemMatches(section, kinds) ==
    LET IsEntry(line) == IsItem(line, kinds)
        lines == SelectSeq(section, IsEntry)
    IN [i \in DOMAIN lines |-> ItemMatch(lines[i], kinds)]

\* _.sortBy(list, 'number')
SortByNumber(list) ==
    Values(SortByKey([i \in DOMAIN list |-> [key |-> list[i].number, val |-> list[i]]]))

PRListSection(body) == Section(body, "pull requests:**", "dash", TRUE)

DeployBlockerSection(body) == Section(body, "Deploy Blockers:**", "dash", FALSE)

InternalQASection(body) == Section(body, "Internal QA:**", "checkbox", FALSE)

\* getStagingDeployCashPRList
GetStagingDeployCashPRList(body) ==
    LET matches == ItemMatches(PRListSection(body), PullKinds)
    IN SortByNumber([i \in DOMAIN matches |->
                       [url |-> matches[i].url,
                        number |-> matches[i].number,
                        isVerified |-> matches[i].box = "x"]])

\* getStagingDeployCashDeployBlockers
GetStagingDeployCashDeployBlockers(body) ==
    LET matches == ItemMatches(DeployBlockerSection(body), IssueOrPullKinds)
    IN SortByNumber([i \in DOMAIN matches |->
                       [url |-> matches[i].url,
                        number |-> matches[i].number,
                        isResolved |-> matches[i].box = "x"]])

\* split('-')[0]: the text before the first dash
BeforeDash(u) ==
    IF \E i \in DOMAIN u : u[i] = "-"
    THEN SubSeq(u, 1, SetMin({i \in DOMAIN u : u[i] = "-"}) - 1)
    ELSE u

\* trim()
RECURSIVE Trim(_)
Trim(u) ==
    IF u = <<>> THEN u
    ELSE IF Head(u) = " " THEN Trim(Tail(u))
    ELSE IF u[Len(u)] = " " THEN Trim(SubSeq(u, 1, Len(u) - 1))
    ELSE u

KeepWholeMatch(u) == u

\* match[2].split('-')[0].trim()
InternalQAURL(u) == Trim(BeforeDash(u))

\* getStagingDeployCashInternalQA
GetStagingDeployCashInternalQA(body) ==
    LET matches == ItemMatches(InternalQASection(body), PullKinds)
    IN SortByNumber([i \in DOMAIN matches |->
                       [url |-> InternalQAURL(matches[i].url),
                        number |-> matches[i].number,
                        isResolved |-> matches[i].box = "x"]])

\* the body as one run of tokens, a CRLF after each line
RECURSIVE Flatten(_)
Flatten(body) ==
    IF body = <<>> THEN <<>> ELSE Head(body) \o <<"CRLF">> \o Flatten(Tail(body))

\* the places where ([0-9]+)\.([0-9]+)\.([0-9]+)(?:-([0-9]+))? matches
VersionStarts(text) ==
    {i \in 1..(Len(text) - 4) :
        /\ text[i] \in NumTokens
        /\ text[i + 1] = "."
        /\ text[i + 2] \in NumTokens
        /\ text[i + 3] = "."
        /\ text[i + 4] \in NumTokens}

HasVersion(body) == VersionStarts(Flatten(body)) # {}

\* issue.body.match(versionRegex)[0].replace(/BackTick/g, ''): the first match,
\* with its build part if it has one
FirstVersion(body) ==
    LET text == Flatten(body)
        i == SetMin(VersionStarts(text))
        NotBackTick(tok) == tok # BackTick
    IN SelectSeq(IF i + 6 <= Len(text) /\ text[i + 5] = "-" /\ text[i + 6] \in NumTokens
                 THEN SubSeq(text, i, i + 6)
                 ELSE SubSeq(text, i, i + 4),
                 NotBackTick)

\* /-\s\[x]\s<text>/ anywhere in the body
IsChecked(body, text) ==
    \E l \in DOMAIN body : \E p \in 1..(Len(body[l]) - 4) :
        /\ body[l][p] = "- ["
        /\ body[l][p + 1] = "x"
        /\ body[l][p + 2] = "]"
        /\ body[l][p + 3] = " "
        /\ body[l][p + 4] = text

DataThrowsOnMissingList(issue) ==
    \/ ~HasVersion(issue.body)
    \/ ~IsIssueOrPullRequestURL(issue.url)
    \/ PRListSection(issue.body) = <<>>

\* any exception in the try block becomes the one "correct data" error
DataThrows(issue) == ~HasVersion(issue.body) \/ ~IsIssueOrPullRequestURL(issue.url)

GetStagingDeployCashData(issue) ==
    [title |-> issue.title,
     url |-> issue.url,
     number |-> GetIssueOrPullRequestNumberFromURL(issue.url),
     labels |-> issue.labels,
     PRList |-> GetStagingDeployCashPRList(issue.body),
     deployBlockers |-> GetStagingDeployCashDeployBlockers(issue.body),
     internalQAPRList |-> GetStagingDeployCashInternalQA(issue.body),
     isTimingDashboardChecked |-> IsChecked(issue.body, TimingDashboardText),
     isFirebaseChecked |-> IsChecked(issue.body, FirebaseText),
     isGHStatusChecked |-> IsChecked(issue.body, GHStatusText),
     tag |-> FirstVersion(issue.body)]

(***************************************************************************)
(* generateStagingDeployCashBody: the call                                 *)
(***************************************************************************)
NoArgs ==
    [tag |-> <<>>, PRList |-> <<>>, verifiedPRList |-> {}, deployBlockers |-> <<>>,
     resolvedDeployBlockers |-> {}, resolvedInternalQAPRs |-> {},
     isTimingDashboardChecked |-> FALSE, isFirebaseChecked |-> FALSE,
     isGHStatusChecked |-> FALSE]

NoIssue == [kind |-> "pending", issueBody |-> <<>>, issueAssignees |-> <<>>]
ResolvedUndefined == [kind |-> "undefined", issueBody |-> <<>>, issueAssignees |-> <<>>]
Issue(body, assignees) ==
    [kind |-> "issue", issueBody |-> body, issueAssignees |-> assignees]

NotParsed == [kind |-> "none", data |-> <<>>]

GenInit ==
    /\ gpc = "idle"
    /\ genArgs = NoArgs
    /\ genFailure = ""
    /\ genResult = NoIssue
    /\ parsed = NotParsed

SeqsUpTo(S, n) == UNION {[1..k -> S] : k \in 0..n}

Tags == {<<"1", ".", "2", ".", "3">>, <<"1", ".", "2", ".", "3", "-", "4">>}

\* the URLs a caller passes: every pull request, and one of them written in
\* a second way too
PRURLs == {CanonicalPRURL(n) : n \in 1..MaxPR} \cup {PlainHttpPRURL(1)}

\* every issue, one of them written in a second way too, and a URL that is
\* neither an issue nor a pull request
BlockerURLs ==
    {IssueURL(n) : n \in 1..MaxPR} \cup {PlainHttpIssueURL(1), CommitURL}

PRKinds == {"plain", "noQA", "internalQA", "internalQAUnmerged"}

PRRecord(n, kind) ==
    CASE kind = "plain" -> PlainPR(n)
      [] kind = "noQA" -> PullRequest(n, "[No QA] Fix", {}, MergerLogin)
      [] kind = "internalQA" -> PullRequest(n, "Fix", {InternalQALabel}, MergerLogin)
      [] kind = "internalQAUnmerged" -> PullRequest(n, "Fix", {InternalQALabel}, NoLogin)

\* the repository as the call finds it: every pull request, newest first
GenListings(numbers) ==
    LET order == Descending(1..MaxPR)
    IN {[i \in DOMAIN order |-> PRRecord(order[i], kindOf[order[i]])] :
          kindOf \in {k \in [1..MaxPR -> PRKinds] :
                        \A n \in 1..MaxPR : n \notin numbers => k[n] = "plain"}}

InternalQAURLsOf(l) ==
    {l[i].html_url : i \in {j \in DOMAIN l : InternalQALabel \in l[j].labels}}

PullRequestNumbers(PRList) ==
    {GetPullRequestNumberFromURL(PRList[i]) : i \in DOMAIN PRList}

\* generateStagingDeployCashBody(tag, PRList, ...): mapping PRList to numbers
\* throws at once on a URL that is no pull request; otherwise the fetch starts
GenerateStagingDeployCashBody ==
    /\ gpc = "idle"
    /\ \E PRList \in SeqsUpTo(PRURLs, MaxItems) :
        \E deployBlockers \in SeqsUpTo(BlockerURLs, MaxItems - Len(PRList)),
           tag \in Tags,
           timing \in BOOLEAN, firebase \in BOOLEAN, ghStatus \in BOOLEAN,
           verified \in SUBSET Range(PRList) :
         \E resolvedBlockers \in SUBSET Range(deployBlockers) :
          \* the calls tried: long lists under one heading, or any heading under
          \* short lists
          /\ \/ Len(PRList) + Len(deployBlockers) <= 1
             \/ tag = <<"1", ".", "2", ".", "3">> /\ ~timing /\ ~firebase /\ ~ghStatus
          /\ \A i \in DOMAIN PRList : IsPullRequestURL(PRList[i])
          /\ \E l \in GenListings(PullRequestNumbers(PRList)) :
              \E resolvedQA \in SUBSET InternalQAURLsOf(l) :
                /\ genArgs' =
                     [tag |-> tag, PRList |-> PRList, verifiedPRList |-> verified,
                      deployBlockers |-> deployBlockers,
                      resolvedDeployBlockers |-> resolvedBlockers,
                      resolvedInternalQAPRs |-> resolvedQA,
                      isTimingDashboardChecked |-> timing,
                      isFirebaseChecked |-> firebase,
                      isGHStatusChecked |-> ghStatus]
                /\ listing' = l
                /\ requested' = PullRequestNumbers(PRList)
    /\ gpc' = "fetching"
    /\ fpc' = "paging"
    /\ nextPage' = 1
    /\ pageRequests' = 0
    /\ collected' = <<>>
    /\ fetchError' = ""
    /\ fetchResult' = Pending
    /\ UNCHANGED <<genFailure, genResult, parsed>>

\* the .then handler on the fetched data, and the .catch after it: an
\* exception in the handler is logged and the promise resolves to undefined
GenerateThen ==
    /\ gpc = "fetching"
    /\ fpc = "resolved"
    /\ gpc' = "done"
    /\ IF HandlerThrows(genArgs, fetchResult)
       THEN /\ genFailure' = "Error generating StagingDeployCash issue body!"
            /\ genResult' = ResolvedUndefined
       ELSE /\ genFailure' = ""
            /\ genResult' = Issue(IssueBody(genArgs, fetchResult),
                                  IssueAssignees(fetchResult))
    /\ UNCHANGED <<genArgs, parsed, fetchVars>>

TicketURL == IssueURL(1)

\* the issue that carries the generated body
GeneratedIssue ==
    [title |-> "Deploy Checklist", url |-> TicketURL, labels |-> {"StagingDeployCash"},
     body |-> genResult.issueBody]

\* the generated body, written to the issue, is read back
ReadBack ==
    /\ gpc = "done"
    /\ genResult.kind = "issue"
    /\ parsed.kind = "none"
    /\ parsed' = IF DataThrows(GeneratedIssue)
                 THEN [kind |-> "error", data |-> <<>>]
                 ELSE [kind |-> "data", data |-> GetStagingDeployCashData(GeneratedIssue)]
    /\ UNCHANGED <<gpc, genArgs, genFailure, genResult, fetchVars>>

GenNext ==
    \/ GenerateStagingDeployCashBody
    \/ PageOk /\ gpc = "fetching" /\ UNCHANGED genVars
    \/ PageFails /\ gpc = "fetching" /\ UNCHANGED genVars
    \/ GenerateThen
    \/ ReadBack

(***************************************************************************)
(* getStagingDeployCash                                                    *)
(***************************************************************************)
NoData == [kind |-> "pending", code |-> 0, data |-> <<>>]

LookupInit ==
    /\ lpc = "idle"
    /\ tickets = <<>>
    /\ lookupResult = NoData

SampleArgs ==
    [NoArgs EXCEPT !.tag = <<"1", ".", "2", ".", "3", "-", "4">>,
                   !.PRList = <<CanonicalPRURL(2), CanonicalPRURL(1)>>,
                   !.verifiedPRList = {CanonicalPRURL(1)},
                   !.deployBlockers = <<IssueURL(2)>>]

\* the text the generator puts between an Internal QA URL and the login
MentionSeparator == <<" ", "-", " ", "@">>

\* a ticket as kept by hand: one Internal QA line, for a pull request of any
\* repository
InternalQATicketBody(url, checked, login) ==
    <<<<"**Release Version:** ", BackTick, "1", ".", "2", ".", "3", BackTick>>,
      <<"**", "Internal QA:**">>,
      CheckLine(checked, url \o MentionSeparator \o login),
      Blank,
      Blank,
      <<"**Deployer verifications:**">>>>

\* a ticket that names a version above its release line, and lists a pull
\* request and a blocker under no heading
TwoVersionsBody ==
    <<<<"Follows ", "2", ".", "0", ".", "0">>,
      <<"**Release Version:** ", BackTick, "1", ".", "2", ".", "3", "-", "4", BackTick>>,
      CheckLine(TRUE, CanonicalPRURL(1)),
      CheckLine(TRUE, IssueURL(2)),
      Blank,
      Blank,
      <<"**Deployer verifications:**">>>>

\* a ticket with its sections but no version anywhere
NoVersionBody ==
    <<<<"**Release Version:** ", BackTick, BackTick>>,
      Blank,
      <<"**This release contains changes from the following ", "pull requests:**">>,
      CheckLine(FALSE, CanonicalPRURL(1)),
      Blank,
      Blank,
      <<"**Deployer verifications:**">>>>

\* issue bodies: generated ones, ones kept by hand, one without a version,
\* an empty one
TicketBodies ==
    {IssueBody(SampleArgs, Value(<<>>)),
     IssueBody([SampleArgs EXCEPT !.isFirebaseChecked = TRUE],
               Value(<<PRRecord(2, "internalQA")>>)),
     IssueBody([NoArgs EXCEPT !.tag = <<"1", ".", "2", ".", "3">>], Value(<<>>)),
     InternalQATicketBody(CanonicalPRURL(1), FALSE, <<"octocat">>),
     InternalQATicketBody(DashRepoPRURL(2), TRUE, MergerLogin),
     TwoVersionsBody,
     NoVersionBody,
     <<<<"**Release Version:** ", BackTick, BackTick>>>>,
     <<>>}

Tickets ==
    {[title |-> "Deploy Checklist", url |-> IssueURL(n),
      labels |-> {"StagingDeployCash"}, body |-> b] :
        n \in 1..MaxTickets, b \in TicketBodies}

LookupHandlerTakesFirst(data) ==
    IF Len(data) = 0 THEN [kind |-> "error", code |-> 404, data |-> <<>>]
    ELSE IF DataThrows(data[1]) THEN [kind |-> "error", code |-> 0, data |-> <<>>]
    ELSE [kind |-> "data", code |-> 0, data |-> GetStagingDeployCashData(data[1])]

\* the handler of the listForRepo answer: an error with a code for no issue
\* or several, the parsed data (or the parser's error) for one
LookupHandler(data) ==
    IF Len(data) = 0 THEN [kind |-> "error", code |-> 404, data |-> <<>>]
    ELSE IF Len(data) > 1 THEN [kind |-> "error", code |-> 500, data |-> <<>>]
    ELSE IF DataThrows(data[1]) THEN [kind |-> "error", code |-> 0, data |-> <<>>]
    ELSE [kind |-> "data", code |-> 0, data |-> GetStagingDeployCashData(data[1])]

\* listForRepo answers and the handler settles the promise
GetStagingDeployCash ==
    /\ lpc = "idle"
    /\ lpc' = "done"
    /\ \E data \in SeqsUpTo(Tickets, MaxTickets) :
        /\ tickets' = data
        /\ lookupResult' = LookupHandler(data)

\* listForRepo fails: the promise rejects with that error
ListForRepoFails ==
    /\ lpc = "idle"
    /\ lpc' = "listFailed"
    /\ lookupResult' = [kind |-> "error", code |-> 0, data |-> <<>>]
    /\ UNCHANGED tickets

LookupNext ==
    \/ GetStagingDeployCash
    \/ ListForRepoFails

Init ==
    /\ ClientInit
    /\ FetchInit
    /\ GenInit
    /\ LookupInit

SpecClient == Init /\ [][ClientNext /\ UNCHANGED <<fetchVars, genVars, lookupVars>>]_vars

SpecFetch == Init /\ [][FetchNext /\ UNCHANGED <<clientVars, genVars, lookupVars>>]_vars

SpecGen == Init /\ [][GenNext /\ UNCHANGED <<clientVars, lookupVars>>]_vars

SpecLookup == Init /\ [][LookupNext /\ UNCHANGED <<clientVars, fetchVars, genVars>>]_vars

(***************************************************************************)
(* Claims about the throttled client                                       *)
(***************************************************************************)
AllRateLimited == \A i \in DOMAIN signals : signals[i] = "rateLimit"

\* C1: a request whose every attempt is rate limited is attempted exactly 6
\* times (the first attempt and 5 retries) before the rate-limit error is
\* surfaced to the caller.
C1_RetryCap ==
    (cpc = "failed" /\ clientError = "RateLimitExceeded" /\ AllRateLimited)
        => (attempts = 6 /\ retryCount = 5)

\* C10: an attempt that receives an abuse-detection signal is the last attempt
\* of its request, whatever the retry count, and the error is surfaced at once.
C10_AbuseNeverRetried ==
    \A i \in DOMAIN signals :
        signals[i] = "abuse" =>
            /\ i = Len(signals)
            /\ i = attempts
            /\ cpc = "failed"
            /\ clientError = "AbuseDetected"

\* an abuse signal arrived on a retry (after rate-limited attempts)
C10_Witness ==
    /\ cpc = "failed"
    /\ Len(signals) >= 3
    /\ signals[Len(signals)] = "abuse"
    /\ retryCount = Len(signals) - 1

(***************************************************************************)
(* Claims about fetchAllPullRequests                                       *)
(***************************************************************************)
\* C2: a fetch in which a page request failed never completes normally: the
\* caller gets neither a partial sequence nor an empty or undefined value.
C2_FetchFailureReported ==
    fetchError # "" => fpc # "resolved"

IsDescending(l) ==
    \A i, j \in DOMAIN l : i < j => l[i].number > l[j].number

PagesWith(l, n) ==
    {k \in 1..NumPages(l) : \E i \in DOMAIN Page(l, k) : Page(l, k)[i].number = n}

\* C4: on a listing sorted descending and a non-empty target set, no page is
\* requested after the first page that holds the smallest target number.
C4_EarlyStop ==
    (/\ fpc # "idle"
     /\ requested # {}
     /\ IsDescending(listing)
     /\ PagesWith(listing, SetMin(requested)) # {})
        => pageRequests <= SetMin(PagesWith(listing, SetMin(requested)))

\* the smallest target is on page 3, more pages follow, and the fetch is over
C4_Witness ==
    /\ fpc = "resolved"
    /\ fetchError = ""
    /\ requested # {}
    /\ IsDescending(listing)
    /\ NumPages(listing) > 3
    /\ PagesWith(listing, SetMin(requested)) = {3}
    /\ pageRequests = 3

(***************************************************************************)
(* Claims about generateStagingDeployCashBody and the body read back       *)
(***************************************************************************)
\* C3: a call in which the fetch failed or the classification raised an
\* exception never gives its caller a rendered issue body.
C3_NoBodyOnFailure ==
    (gpc = "done" /\ (fetchError # "" \/ genFailure # ""))
        => genResult.kind # "issue"

\* the numbers of the item lines of a section, in the order of the lines
Numbers(matches) == [i \in DOMAIN matches |-> matches[i].number]

RenderedPRNumbers ==
    Numbers(ItemMatches(PRListSection(genResult.issueBody), PullKinds))

RenderedInternalQANumbers ==
    Numbers(ItemMatches(InternalQASection(genResult.issueBody), PullKinds))

RenderedBlockerNumbers ==
    Numbers(ItemMatches(DeployBlockerSection(genResult.issueBody), IssueOrPullKinds))

StrictlyAscending(s) == \A i, j \in DOMAIN s : i < j => s[i] < s[j]

Ascending(s) == \A i, j \in DOMAIN s : i < j => s[i] <= s[j]

\* C5: no pull-request number is both in the rendered main list and in the
\* rendered Internal QA list.
C5_Disjoint ==
    genResult.kind = "issue"
        => Range(RenderedPRNumbers) \cap Range(RenderedInternalQANumbers) = {}

\* C6: the Internal QA lines of the rendered body are strictly ascending by
\* pull-request number.
C6_InternalQAAscending ==
    genResult.kind = "issue" => StrictlyAscending(RenderedInternalQANumbers)

\* C7: the main list and the Deploy Blockers list of the rendered body are
\* strictly ascending by number: entries with one number are one line.
C7_ListsStrictlyAscending ==
    genResult.kind = "issue"
        => /\ StrictlyAscending(RenderedPRNumbers)
           /\ StrictlyAscending(RenderedBlockerNumbers)

\* the number a well-formed URL of the document ends in
DocNumber(u) == ParseInt(u[Len(u)])

\* the document the renderer was given: the Internal QA entries are the
\* labelled pull requests of the data it received, the main entries the rest
\* of PRList, the blockers the deployBlockers, each with its check-box state
DocInternalQA ==
    {[url |-> pr.html_url, number |-> pr.number,
      isResolved |-> pr.html_url \in genArgs.resolvedInternalQAPRs] :
        pr \in {q \in Range(DataItems(fetchResult)) : InternalQALabel \in q.labels}}

DocPullRequests ==
    {[url |-> u, number |-> DocNumber(u),
      isVerified |->
          \/ u \in genArgs.verifiedPRList
          \/ \E q \in Range(DataItems(fetchResult)) :
                q.html_url = u /\ IsNoQATitle(q.title)] :
        u \in {v \in Range(genArgs.PRList) : \A e \in DocInternalQA : e.url # v}}

DocDeployBlockers ==
    {[url |-> u, number |-> DocNumber(u),
      isResolved |-> u \in genArgs.resolvedDeployBlockers] :
        u \in Range(genArgs.deployBlockers)}

\* the list holds exactly the entries, once each, ascending by number
IsNormalized(list, entries) ==
    /\ Range(list) = entries
    /\ Len(list) = Cardinality(entries)
    /\ Ascending([i \in DOMAIN list |-> list[i].number])

C9_SingleTicket ==
    lpc = "done"
        => /\ Len(tickets) = 0 =>
                lookupResult.kind = "error" /\ lookupResult.code = 404
           /\ Len(tickets) >= 2 =>
                lookupResult.kind = "error" /\ lookupResult.code = 500
           /\ lookupResult.kind = "data" =>
                /\ Len(tickets) = 1
                /\ lookupResult.data.url = tickets[1].url
                /\ lookupResult.data.tag = FirstVersion(tickets[1].body)

\* two open issues, the first of which parses, and the lookup has failed
C9_Witness ==
    /\ lpc = "done"
    /\ Len(tickets) = 2
    /\ ~DataThrows(tickets[1])
    /\ lookupResult.kind = "error"
    /\ lookupResult.code = 500

(***************************************************************************)
(* Claims about the Internal QA lines of a ticket                          *)
(***************************************************************************)
\* the Internal QA lines "- [<box>] <url> - @<mention>" a ticket can hold
InternalQALineURLs == {CanonicalPRURL(n) : n \in 1..MaxPR} \cup {DashRepoPRURL(n) : n \in 1..MaxPR}

InternalQAMentions == {<<"octocat">>, MergerLogin}

\* the entry read from such a line has the URL and the mention of the line
ReadsLine(list, url, login) ==
    \E i \in DOMAIN list :
        /\ list[i].url = url
        /\ "assignee" \in DOMAIN list[i]
        /\ list[i].assignee = login

\* C11: parsing an Internal QA line "- [<box>] <url> - @<mention>" yields an
\* entry whose url is exactly <url>, also when the URL holds a dash, and
\* whose assignee is <mention>
C11_InternalQAAssignee ==
    (lpc = "done" /\ Len(tickets) = 1 /\ lookupResult.kind = "data") =>
        \A l \in DOMAIN InternalQASection(tickets[1].body) :
            \A url \in InternalQALineURLs, login \in InternalQAMentions, checked \in BOOLEAN :
                InternalQASection(tickets[1].body)[l]
                        = CheckLine(checked, url \o MentionSeparator \o login)
                    => ReadsLine(lookupResult.data.internalQAPRList, url, login)

\* the url alone: what is left of C11 when the assignee is set aside
InternalQAURLKept ==
    (lpc = "done" /\ Len(tickets) = 1 /\ lookupResult.kind = "data") =>
        \A l \in DOMAIN InternalQASection(tickets[1].body) :
            \A url \in InternalQALineURLs, login \in InternalQAMentions, checked \in BOOLEAN :
                InternalQASection(tickets[1].body)[l]
                        = CheckLine(checked, url \o MentionSeparator \o login)
                    => \E i \in DOMAIN lookupResult.data.internalQAPRList :
                          lookupResult.data.internalQAPRList[i].url = url

(***************************************************************************)
(* Claims about what makes the parser fail                                 *)
(***************************************************************************)
\* the version tokens N.N.N[-N] of a body, by the place they start at
VersionTokens(body) == VersionStarts(Flatten(body))

\* the first version token of a body, with its build part if it has one
FirstVersionToken(body) ==
    LET text == Flatten(body)
        first == CHOOSE i \in VersionTokens(body) : \A j \in VersionTokens(body) : i <= j
        core == <<text[first], ".", text[first + 2], ".", text[first + 4]>>
    IN IF first + 6 <= Len(text) /\ text[first + 5] = "-" /\ text[first + 6] \in NumTokens
       THEN core \o <<"-", text[first + 6]>>
       ELSE core

\* no line of the body holds the heading
HeadingMissing(body, heading) ==
    \A l \in DOMAIN body : heading \notin Range(body[l])

\* C12: for a ticket with a valid URL, getStagingDeployCashData fails when the
\* body holds no version token; when it holds one, it succeeds, the tag is
\* the first version token of the body, and a list whose section heading is
\* missing is empty
C12_ParseFailsOnlyOnTag ==
    (lpc = "done" /\ Len(tickets) = 1 /\ IsIssueOrPullRequestURL(tickets[1].url)) =>
        IF VersionTokens(tickets[1].body) = {}
        THEN lookupResult.kind = "error" /\ lookupResult.code = 0
        ELSE /\ lookupResult.kind = "data"
             /\ lookupResult.data.tag = FirstVersionToken(tickets[1].body)
             /\ HeadingMissing(tickets[1].body, "pull requests:**")
                    => lookupResult.data.PRList = <<>>
             /\ HeadingMissing(tickets[1].body, "Deploy Blockers:**")
                    => lookupResult.data.deployBlockers = <<>>
             /\ HeadingMissing(tickets[1].body, "Internal QA:**")
                    => lookupResult.data.internalQAPRList = <<>>

\* a ticket with two version tokens and item lines under no heading was parsed
C12_Witness ==
    /\ lpc = "done"
    /\ Len(tickets) = 1
    /\ lookupResult.kind = "data"
    /\ Cardinality(VersionTokens(tickets[1].body)) >= 2
    /\ HeadingMissing(tickets[1].body, "pull requests:**")
    /\ \E l \in DOMAIN tickets[1].body : IsItem(tickets[1].body[l], PullKinds)
    /\ lookupResult.data.tag = <<"2", ".", "0", ".", "0">>
    /\ lookupResult.data.PRList = <<>>

(***************************************************************************)
(* Claims about the check boxes of the main list                           *)
(***************************************************************************)
\* the main-list lines of the rendered body: box, url and number of each
RenderedPRLines == ItemMatches(PRListSection(genResult.issueBody), PullKinds)

\* the fetched record of pull request n has a [No QA] title
FetchedNoQA(n) ==
    \E i \in DOMAIN DataItems(fetchResult) :
        /\ DataItems(fetchResult)[i].number = n
        /\ IsNoQATitle(DataItems(fetchResult)[i].title)

\* C13: a main-list line of the rendered body is checked if and only if its
\* URL is in the verified list of the call or the fetched record of its pull
\* request has a [No QA] title
C13_CheckedIffVerified ==
    genResult.kind = "issue" =>
        \A i \in DOMAIN RenderedPRLines :
            RenderedPRLines[i].box = "x"
                <=> \/ RenderedPRLines[i].url \in genArgs.verifiedPRList
                    \/ FetchedNoQA(RenderedPRLines[i].number)

\* the same for the calls whose URLs are all written as GitHub serves them
CheckedIffVerifiedOnServedURLs ==
    (genResult.kind = "issue"
        /\ \A i \in DOMAIN genArgs.PRList :
              \E n \in 1..MaxPR : genArgs.PRList[i] = CanonicalPRURL(n)) =>
        \A i \in DOMAIN RenderedPRLines :
            RenderedPRLines[i].box = "x"
                <=> \/ RenderedPRLines[i].url \in genArgs.verifiedPRList
                    \/ FetchedNoQA(RenderedPRLines[i].number)

(***************************************************************************)
(* Claims about what fetchAllPullRequests returns                          *)
(***************************************************************************)
\* the listed pull requests whose number was asked for
ListedAndRequested ==
    {listing[i] : i \in {j \in DOMAIN listing : listing[j].number \in requested}}

\* the result is an array that holds each of these pull requests once, and
\* nothing else
ReturnsListedAndRequested ==
    /\ fetchResult.kind = "array"
    /\ Range(fetchResult.items) = ListedAndRequested
    /\ Len(fetchResult.items) = Cardinality(ListedAndRequested)

\* C14: on a listing in strictly descending number order, and with no failed
\* page request, fetchAllPullRequests returns exactly the listed pull requests
\* whose number is in the requested set
C14_EarlyStopComplete ==
    (fpc = "resolved" /\ fetchError = "" /\ IsDescending(listing))
        => ReturnsListedAndRequested

\* the fetch stopped before the last page, and returned two pull requests
\* that were on different pages
C14_Witness ==
    /\ fpc = "resolved"
    /\ fetchError = ""
    /\ IsDescending(listing)
    /\ pageRequests < NumPages(listing)
    /\ Cardinality(requested) = 2
    /\ ReturnsListedAndRequested
    /\ Len(fetchResult.items) = 2
    /\ PagesWith(listing, SetMax(requested)) # PagesWith(listing, SetMin(requested))

\* the smallest requested number is on no page of the listing, or no number
\* was requested
TargetNotListed ==
    requested = {} \/ PagesWith(listing, SetMin(requested)) = {}

\* C15: when the smallest requested number is not in the listing, or nothing
\* was requested, fetchAllPullRequests requests every page in order and then
\* completes with the requested pull requests it saw; no error is raised
C15_TargetNotFound ==
    (fpc = "resolved" /\ fetchError = "" /\ TargetNotListed)
        => /\ pageRequests = NumPages(listing)
           /\ collected = listing
           /\ ReturnsListedAndRequested

\* three pages or more were read to the end for a smallest number that is
\* not listed, and the other requested pull request was returned
C15_Witness ==
    /\ fpc = "resolved"
    /\ fetchError = ""
    /\ requested # {}
    /\ TargetNotListed
    /\ NumPages(listing) >= 3
    /\ pageRequests = NumPages(listing)
    /\ fetchResult.kind = "array"
    /\ Len(fetchResult.items) = 1

\* nothing was requested: every page was read and the result is empty
NothingRequestedReadsAll ==
    /\ fpc = "resolved"
    /\ fetchError = ""
    /\ requested = {}
    /\ NumPages(listing) >= 3
    /\ pageRequests = NumPages(listing)
    /\ fetchResult = Value(<<>>)

====
